---- MODULE Spec2Model ----
(***************************************************************************)
(* A model of fastq-filter: the command line program `main`, the streaming *)
(* pipeline `filter_fastq` over `multiple_files_to_records`, the filters   *)
(* and the quality statistics `qualmean` and `qualmedian`.                 *)
(*                                                                         *)
(* Three specifications share the module:                                  *)
(*   Spec        one run of `main` on files fixed by Init;                 *)
(*   FilterSpec  one call of one filter on one record group;               *)
(*   StatSpec    one call of qualmean or qualmedian on one quality string. *)
(*                                                                         *)
(* Numbers.  A quality string is a sequence of bytes 0..255.  Floats are   *)
(* modelled as exact reals: the value of qualmean is kept in symbolic form *)
(* (the exponents of phred_constant that were summed, the length divided   *)
(* by, the offset subtracted after the logarithm) and a comparison against *)
(* a threshold is decided in fixed point (six decimals) on the tenth       *)
(* powers of ten.  A median is kept as twice its value, an integer.        *)
(***************************************************************************)
EXTENDS Integers, Sequences, FiniteSets, TLC

\* --------------------------------------------------------------- bounds
\* The largest number of records in one input file.
MaxRecords == 2
\* The largest number of input files of a run.
MaxInputs == 3
\* FilterSpec: the largest number of mates in a group, and of bases in a read.
MaxMates == 2
MaxLen == 2
\* FilterSpec: the largest number of calls of the filter.
MaxCalls == 2
\* StatSpec: the longest quality string over StatBytes.
MaxQualLen == 3

\* ----------------------------------------------------- program constants
DEFAULT_PHRED_SCORE_OFFSET == 33
\* The largest value of one element of a Python bytes object.
MaxByte == 255

\* ---------------------------------------------------------------- helpers
Range(s) == {s[i] : i \in 1..Len(s)}

SeqsUpTo(S, n) == UNION {[1..m -> S] : m \in 0..n}

Max(S) == CHOOSE x \in S : \A y \in S : y <= x

Min(S) == CHOOSE x \in S : \A y \in S : x <= y

RECURSIVE SumSeq(_)
SumSeq(s) == IF s = <<>> THEN 0 ELSE Head(s) + SumSeq(Tail(s))

RECURSIVE Concat(_)
\* b"".join(...) / the concatenation of a sequence of sequences
Concat(ss) == IF ss = <<>> THEN <<>> ELSE Head(ss) \o Concat(Tail(ss))

RECURSIVE InsertSorted(_, _)
InsertSorted(x, s) ==
    IF s = <<>> THEN <<x>>
    ELSE IF x <= Head(s) THEN <<x>> \o s
    ELSE <<Head(s)>> \o InsertSorted(x, Tail(s))

RECURSIVE sorted(_)
\* Python's sorted() on a sequence of integers
sorted(s) == IF s = <<>> THEN <<>> ELSE InsertSorted(Head(s), sorted(Tail(s)))

\* ------------------------------------------------------ fixed-point reals
\* 10^(d/10) for d = 0..9, in millionths.
TenthPowers ==
    <<1000000, 1258925, 1584893, 1995262, 2511886,
      3162278, 3981072, 5011872, 6309573, 7943282>>

RECURSIVE TenTo(_)
TenTo(n) == IF n = 0 THEN 1 ELSE 10 * TenTo(n - 1)

\* 10^(d/10) in millionths, d >= 0.
Pow10th(d) == TenthPowers[(d % 10) + 1] * TenTo(d \div 10)

\* ------------------------------------------------- quality statistics
\* A plausible slip: the middle of the data as given, not sorted.
statistics_median_unsorted(data) ==
    LET n == Len(data)
        i == n \div 2
    IN  IF n = 0 THEN [exc |-> "StatisticsError", twice |-> 0]
        ELSE IF n % 2 = 1 THEN [exc |-> "none", twice |-> 2 * data[i + 1]]
        ELSE [exc |-> "none", twice |-> data[i] + data[i + 1]]

\* statistics.median: the empty case raises StatisticsError; otherwise the
\* middle of the sorted data, or the mean of the two middle values.  The
\* value is returned doubled, so that a half stays an integer.
statistics_median(data) ==
    LET d == sorted(data)
        n == Len(d)
        i == n \div 2
    IN  IF n = 0 THEN [exc |-> "StatisticsError", twice |-> 0]
        ELSE IF n % 2 = 1 THEN [exc |-> "none", twice |-> 2 * d[i + 1]]
        ELSE [exc |-> "none", twice |-> d[i] + d[i + 1]]

\* A plausible slip: the lower middle value for an even length.
qualmedian_lower(qualities, phred_offset) ==
    LET d == sorted(qualities)
        n == Len(d)
    IN  IF n = 0 THEN [exc |-> "StatisticsError", twice |-> 0]
        ELSE [exc |-> "none", twice |-> 2 * d[(n + 1) \div 2] - 2 * phred_offset]

\* qualmedian: statistics.median(qualities) - phred_offset, doubled.
qualmedian(qualities, phred_offset) ==
    LET m == statistics_median(qualities)
    IN  IF m.exc # "none" THEN m
        ELSE [exc |-> "none", twice |-> m.twice - 2 * phred_offset]

\* A plausible slip: the arithmetic mean of the phred values (truncated).
qualmean_of_phreds(qualities, phred_offset) ==
    IF Len(qualities) = 0
    THEN [exc |-> "ZeroDivisionError", scores |-> <<>>, len |-> 0, minus |-> 0]
    ELSE [exc |-> "none",
          scores |-> <<SumSeq(qualities) \div Len(qualities)>>,
          len |-> 1,
          minus |-> phred_offset]

\* qualmean: sum_probabilities is the sum of phred_constant ** score over
\* the raw bytes; average = sum_probabilities / len(qualities) divides by
\* zero on the empty string; the value is -10 * log10(average) - phred_offset.
\* The value stands for -10 * log10((SUM_i k^scores[i]) / len) - minus,
\* k = 10 ** -0.1.
qualmean(qualities, phred_offset) ==
    IF Len(qualities) = 0
    THEN [exc |-> "ZeroDivisionError", scores |-> <<>>, len |-> 0, minus |-> 0]
    ELSE [exc |-> "none",
          scores |-> qualities,
          len |-> Len(qualities),
          minus |-> phred_offset]

\* Whether the error probability 10 ** -(q / 10) of a qualmean value q is
\* <= 10 ** -(t / 10):   SUM_i k^(scores[i] - minus) <= len * k^t,
\* both sides multiplied by 10^(top/10), top the largest exponent.
ErrorRateAtMost(q, t) ==
    LET e == [i \in 1..Len(q.scores) |-> q.scores[i] - q.minus]
        top == Max(Range(e) \cup {t})
    IN  SumSeq([i \in 1..Len(e) |-> Pow10th(top - e[i])]) <= q.len * Pow10th(top - t)

\* ------------------------------------------------------------- records
\* A record of dnaio: its name (an identifier and the mate number that ends
\* it), its bases and its quality bytes, one per base.
SequenceRecord(id, mate, quals) ==
    [name |-> [id |-> id, mate |-> mate],
     sequence |-> [j \in 1..Len(quals) |-> "A"],
     qualities |-> quals]

\* record.is_mate(other): the names agree up to the mate number.
is_mate(record1, record2) == record1.name.id = record2.name.id

\* dnaio.records_are_mates(*records): every record is a mate of the first.
records_are_mates(records) ==
    \A i \in 2..Len(records) : is_mate(records[1], records[i])

\* record.fastq_bytes(): the four lines of the record.
fastq_bytes(record) ==
    << <<"@", record.name>>, <<"seq", record.sequence>>,
       <<"+">>, <<"qual", record.qualities>> >>

\* A slip in the write loop's pairing: the first record goes to every sink.
written_record_first(records, i) == records[1]

\* The record of the group that goes to sink i: the loops over
\* filtered_fastq_records pair record i with output i.
written_record(records, i) == records[i]

RECURSIVE parse_fastq(_)
\* What a FASTQ parser reads back from the lines of a file: one record per
\* four lines, in order.
parse_fastq(lines) ==
    IF Len(lines) < 4 THEN <<>>
    ELSE << [name |-> lines[1][2], sequence |-> lines[2][2],
             qualities |-> lines[4][2]] >>
         \o parse_fastq(SubSeq(lines, 5, Len(lines)))

\* ------------------------------------------------------------- filters
\* The quality bytes of every record of the group, joined.
pooled_qualities(records) ==
    Concat([i \in 1..Len(records) |-> records[i].qualities])

\* A slip: every mate must be long enough.
MinimumLengthFilter_all(threshold, records) ==
    \A i \in 1..Len(records) : Len(records[i].sequence) >= threshold

MinimumLengthFilter(threshold, records) ==
    \E i \in 1..Len(records) : Len(records[i].sequence) >= threshold

\* A slip: one short enough mate suffices.
MaximumLengthFilter_any(threshold, records) ==
    \E i \in 1..Len(records) : Len(records[i].sequence) <= threshold

MaximumLengthFilter(threshold, records) ==
    \A i \in 1..Len(records) : Len(records[i].sequence) <= threshold

\* threshold t stands for the error rate 10 ** -(t / 10).
AverageErrorRateFilter(threshold, phred_offset, records) ==
    LET q == qualmean(pooled_qualities(records), phred_offset)
    IN  IF q.exc # "none" THEN [exc |-> q.exc, value |-> FALSE]
        ELSE [exc |-> "none", value |-> ErrorRateAtMost(q, threshold)]

MedianQualityFilter(threshold, phred_offset, records) ==
    LET m == qualmedian(pooled_qualities(records), phred_offset)
    IN  IF m.exc # "none" THEN [exc |-> m.exc, value |-> FALSE]
        ELSE [exc |-> "none", value |-> m.twice >= 2 * threshold]

\* A filter object as constructed: its counters start at zero.
NewFilter(name, threshold) ==
    [name |-> name, threshold |-> threshold,
     phred_offset |-> DEFAULT_PHRED_SCORE_OFFSET, total |-> 0, passed |-> 0]

\* filter(records): the verdict of the filter, or the exception it raises.
passes_filter(f, records) ==
    CASE f.name = "min_length" ->
            [exc |-> "none", value |-> MinimumLengthFilter(f.threshold, records)]
      [] f.name = "max_length" ->
            [exc |-> "none", value |-> MaximumLengthFilter(f.threshold, records)]
      [] f.name = "average_error_rate" ->
            AverageErrorRateFilter(f.threshold, f.phred_offset, records)
      [] f.name = "median_quality" ->
            MedianQualityFilter(f.threshold, f.phred_offset, records)

\* A slip: passed counts every call.
counted_every_call(f, res) ==
    [f EXCEPT !.total = @ + 1, !.passed = @ + 1]

\* The counters after a call with verdict res.
counted(f, res) ==
    [f EXCEPT !.total = @ + 1,
              !.passed = @ + (IF res.exc = "none" /\ res.value THEN 1 ELSE 0)]

\* --------------------------------------------------------------- state
VARIABLES
    args,       \* the parsed command line of main
    inputs,     \* the records of each input file, as the parser yields them
    pos,        \* per input: how many records its iterator has yielded
    filters,    \* main's list of filter objects, with their counters
    outputs,    \* per opened output file: the lines written to it
    cur,        \* the records zip has pulled for the group in hand
    pc,         \* where the run is
    idx,        \* the input, filter or output the step at pc is at
    exc,        \* the exception that ended the run
    hist,       \* what happened so far: pulls, filter calls, writes
    call,       \* FilterSpec, StatSpec: the call under test
    result      \* FilterSpec, StatSpec: what the call returned

vars == <<args, inputs, pos, filters, outputs, cur, pc, idx, exc, hist, call, result>>

run_vars == <<args, inputs, pos, filters, outputs, cur, pc, idx, exc, hist>>

unit_vars == <<call, result>>

NoException == [type |-> "none", line |-> 0]

NoCall == [fn |-> "none"]

NoResult == [exc |-> "pending"]

\* ------------------------------------------------------- the input files
\* The rows of the runs: every mate two bases of phred 9; every mate one
\* base of phred 1; the first mate one base of phred 1 and the others two
\* of phred 9; every mate without bases.
RowKinds == {"good", "bad", "mixed", "empty"}

KindQualities(kind, mate) ==
    CASE kind = "good" -> <<42, 42>>
      [] kind = "bad" -> <<34>>
      [] kind = "mixed" -> IF mate = 1 THEN <<34>> ELSE <<42, 42>>
      [] kind = "empty" -> <<>>

\* The command lines of the runs.  0 stands for an option that was not
\* given (None): main tests each option for truth, and 0 is as false as
\* None.  output is the number of -o options.  The two error rate options
\* hold t for the rate 10 ** -(t / 10).
FilterOptions ==
    { [min_length |-> 0, max_length |-> 0, average_error_rate |-> 0,
       mean_quality |-> 0, median_quality |-> 0],
      [min_length |-> 2, max_length |-> 0, average_error_rate |-> 0,
       mean_quality |-> 0, median_quality |-> 0],
      [min_length |-> 0, max_length |-> 1, average_error_rate |-> 5,
       mean_quality |-> 0, median_quality |-> 0],
      [min_length |-> 1, max_length |-> 0, average_error_rate |-> 0,
       mean_quality |-> 0, median_quality |-> 5],
      [min_length |-> 0, max_length |-> 0, average_error_rate |-> 0,
       mean_quality |-> 5, median_quality |-> 0] }

\* The files of a run: counts[i] records in file i; the records of row r
\* are mates named r, of the kind kinds[r], but for the one record at odd
\* (file, row), which is named 0.  Init varies the kind and the names only
\* in the rows that every file has: of a row that some file lacks the
\* program never reads more than the presence of its records.
InputFiles(n, counts, kinds, odd) ==
    [i \in 1..n |->
        [r \in 1..counts[i] |->
            SequenceRecord(IF odd = <<i, r>> THEN 0 ELSE r, i,
                           KindQualities(kinds[r], i))]]

\* The rows that every file has.
CompleteRows(n, counts) == 1..Min({counts[i] : i \in 1..n})

Init ==
    \E n \in 1..MaxInputs :
    \E counts \in [1..n -> 0..MaxRecords] :
    \E kinds \in [1..MaxRecords -> RowKinds] :
        /\ \A r \in 1..MaxRecords :
              r \notin CompleteRows(n, counts) => kinds[r] = "good"
        /\ \E odd \in {<<0, 0>>} \cup ((1..n) \X CompleteRows(n, counts)) :
           \E opts \in FilterOptions :
           \E nout \in {0, n - 1, n, n + 1} :
              /\ args = [input |-> n, output |-> nout, options |-> opts]
              /\ inputs = InputFiles(n, counts, kinds, odd)
              /\ pos = [i \in 1..n |-> 0]
              /\ filters = <<>>
              /\ outputs = <<>>
              /\ cur = <<>>
              /\ pc = "main"
              /\ idx = 0
              /\ exc = NoException
              /\ hist = <<>>
              /\ call = NoCall
              /\ result = NoResult

\* ------------------------------------------------------------------ main
\* main's filter list: one filter per option that is true, from low cost
\* to high cost.
main_filters(o) ==
    (IF o.min_length # 0 THEN <<NewFilter("min_length", o.min_length)>> ELSE <<>>)
    \o (IF o.max_length # 0 THEN <<NewFilter("max_length", o.max_length)>> ELSE <<>>)
    \o (IF o.average_error_rate # 0
        THEN <<NewFilter("average_error_rate", o.average_error_rate)>> ELSE <<>>)
    \o (IF o.mean_quality # 0
        THEN <<NewFilter("average_error_rate", o.mean_quality)>> ELSE <<>>)
    \o (IF o.median_quality # 0
        THEN <<NewFilter("median_quality", o.median_quality)>> ELSE <<>>)

Raise(type, line) ==
    /\ pc' = "raised"
    /\ exc' = [type |-> type, line |-> line]

\* main up to its call of filter_fastq.  Logging the output files joins
\* args.output, which is None when no -o was given.
main_parse ==
    /\ pc = "main"
    /\ IF args.output = 0
       THEN /\ Raise("TypeError", 223)
            /\ UNCHANGED filters
       ELSE /\ filters' = main_filters(args.options)
            /\ pc' = "filter_fastq"
            /\ exc' = exc
    /\ UNCHANGED <<args, inputs, pos, outputs, cur, idx, hist, unit_vars>>

\* ---------------------------------------------------------- filter_fastq
\* A slip: only too few outputs are refused.
arity_mismatch_fewer(n_inputs, n_outputs) == n_outputs < n_inputs

\* Whether filter_fastq refuses its arguments.
arity_mismatch(n_inputs, n_outputs) == n_inputs # n_outputs

\* filter_fastq up to its loop: the check of the two lengths, then the
\* generator and the chain of filter() objects (nothing runs yet), then
\* every output file opened for writing.
filter_fastq_enter ==
    /\ pc = "filter_fastq"
    /\ IF arity_mismatch(args.input, args.output)
       THEN /\ Raise("ValueError", 127)
            /\ UNCHANGED <<outputs, idx>>
       ELSE /\ outputs' = [i \in 1..args.output |-> <<>>]
            /\ pc' = "zip"
            /\ idx' = 1
            /\ exc' = exc
    /\ UNCHANGED <<args, inputs, pos, filters, cur, hist, unit_vars>>

\* -------------------------------------------- multiple_files_to_records
Event(ev, n, row, ok) == [ev |-> ev, n |-> n, row |-> row, ok |-> ok]

\* A slip: under a filter list the groups are pulled one after another
\* before any is looked at.
after_yield_pulls_on == IF filters = <<>> THEN "write" ELSE "zip"

\* Where a yielded group goes: through the chain of filter() objects, or,
\* with no filter, straight to the loop that writes.
after_yield == IF filters = <<>> THEN "write" ELSE "filter"

\* One next() of zip on the iterator of input idx, in the order of the
\* inputs.  A record joins the group in hand; the group is complete after
\* the last input.  An exhausted iterator ends zip: the records already
\* pulled for this group are dropped, and the generator goes on to check
\* that every iterator is exhausted.
zip_next ==
    /\ pc = "zip"
    /\ IF pos[idx] < Len(inputs[idx])
       THEN /\ pos' = [pos EXCEPT ![idx] = @ + 1]
            /\ cur' = Append(cur, inputs[idx][pos[idx] + 1])
            /\ hist' = Append(hist, Event("pull", idx, pos[idx] + 1, TRUE))
            /\ IF idx < args.input
               THEN /\ idx' = idx + 1
                    /\ pc' = pc
               ELSE /\ idx' = 1
                    /\ pc' = IF args.input = 1 THEN after_yield ELSE "mates"
       ELSE /\ pos' = pos
            /\ cur' = <<>>
            /\ hist' = Append(hist, Event("pull", idx, pos[idx] + 1, FALSE))
            /\ idx' = 1
            /\ pc' = "exhausted"
    /\ UNCHANGED <<args, inputs, filters, outputs, exc, unit_vars>>

\* A slip: only the first two records are compared.
in_sync_first_two(records) == is_mate(records[1], records[2])

\* The check of a complete group of two or more records.
in_sync(records) ==
    IF Len(records) = 2
    THEN is_mate(records[1], records[2])
    ELSE records_are_mates(records)

\* A slip: on the error the outputs are emptied.
check_mates_rollback ==
    /\ pc = "mates"
    /\ IF in_sync(cur)
       THEN /\ pc' = after_yield
            /\ exc' = exc
            /\ outputs' = outputs
       ELSE /\ Raise("FastqFormatError", IF Len(cur) = 2 THEN 87 ELSE 95)
            /\ outputs' = [i \in 1..Len(outputs) |-> <<>>]
    /\ UNCHANGED <<args, inputs, pos, filters, cur, idx, hist, unit_vars>>

\* The group is checked, then yielded.
check_mates ==
    /\ pc = "mates"
    /\ IF in_sync(cur)
       THEN /\ pc' = after_yield
            /\ exc' = exc
       ELSE Raise("FastqFormatError", IF Len(cur) = 2 THEN 87 ELSE 95)
    /\ UNCHANGED <<args, inputs, pos, filters, outputs, cur, idx, hist, unit_vars>>

\* After zip has ended: one next() on the iterator of input idx.  A record
\* is an error; StopIteration is passed over.  After the last iterator the
\* generator returns, the loop of filter_fastq ends, the outputs are closed
\* and filter_fastq returns to main.
check_exhausted ==
    /\ pc = "exhausted"
    /\ IF pos[idx] < Len(inputs[idx])
       THEN /\ pos' = [pos EXCEPT ![idx] = @ + 1]
            /\ Raise("FastqFormatError", 105)
            /\ idx' = idx
       ELSE /\ pos' = pos
            /\ exc' = exc
            /\ IF idx < args.input
               THEN /\ idx' = idx + 1
                    /\ pc' = pc
               ELSE /\ idx' = 0
                    /\ pc' = "summary"
    /\ UNCHANGED <<args, inputs, filters, outputs, cur, hist, unit_vars>>

\* ------------------------------------------------- the loop of filter_fastq
\* A slip: a group that fails a filter is handed on to the next one.
chain_next_skips(value, k, n) ==
    IF k < n THEN [pc |-> "filter", idx |-> k + 1]
    ELSE IF value THEN [pc |-> "write", idx |-> 1]
    ELSE [pc |-> "zip", idx |-> 1]

\* A slip: what the first filter lets through is written at once.
chain_next_first_only(value, k, n) ==
    IF value THEN [pc |-> "write", idx |-> 1] ELSE [pc |-> "zip", idx |-> 1]

\* filter(filter_func, ...) nested once per filter: filter k + 1 is handed
\* what filter k let through; what the last filter lets through is written;
\* after a refusal the next group is pulled.
chain_next(value, k, n) ==
    IF ~value THEN [pc |-> "zip", idx |-> 1]
    ELSE IF k < n THEN [pc |-> "filter", idx |-> k + 1]
    ELSE [pc |-> "write", idx |-> 1]

\* Filter idx is called on the group in hand.
apply_filter ==
    /\ pc = "filter"
    /\ LET res == passes_filter(filters[idx], cur)
           next == chain_next(res.value, idx, Len(filters))
       IN  /\ filters' = [filters EXCEPT ![idx] = counted(@, res)]
           /\ hist' = Append(hist, Event("filter", idx, pos[1],
                                         res.exc = "none" /\ res.value))
           /\ IF res.exc # "none"
              THEN /\ Raise(res.exc, 130)
                   /\ UNCHANGED <<cur, idx>>
              ELSE /\ pc' = next.pc
                   /\ idx' = next.idx
                   /\ cur' = IF next.pc = "zip" THEN <<>> ELSE cur
                   /\ exc' = exc
    /\ UNCHANGED <<args, inputs, pos, outputs, unit_vars>>

\* One output.write(record.fastq_bytes()), in the order of the outputs; the
\* four branches of filter_fastq (one, two, three, more outputs) write
\* record i of the group to output i.
write_record ==
    /\ pc = "write"
    /\ outputs' = [outputs EXCEPT
                      ![idx] = @ \o fastq_bytes(written_record(cur, idx))]
    /\ hist' = Append(hist, Event("write", idx, pos[1], TRUE))
    /\ IF idx < Len(outputs)
       THEN /\ idx' = idx + 1
            /\ pc' = pc
            /\ cur' = cur
       ELSE /\ idx' = 1
            /\ pc' = "zip"
            /\ cur' = <<>>
    /\ UNCHANGED <<args, inputs, pos, filters, exc, unit_vars>>

\* ------------------------------------------------------- main's summary
\* The lines logged after filter_fastq: each percentage divides by a
\* counter `total`, and the message is formatted whatever the log level.
main_summary ==
    /\ pc = "summary"
    /\ IF filters # <<>> /\ filters[1].total = 0
       THEN Raise("ZeroDivisionError", 252)
       ELSE IF \E k \in 1..Len(filters) : filters[k].total = 0
       THEN Raise("ZeroDivisionError", 258)
       ELSE /\ pc' = "exit"
            /\ exc' = exc
    /\ UNCHANGED <<args, inputs, pos, filters, outputs, cur, idx, hist, unit_vars>>

Next ==
    \/ main_parse
    \/ filter_fastq_enter
    \/ zip_next
    \/ check_mates
    \/ apply_filter
    \/ write_record
    \/ check_exhausted
    \/ main_summary

Spec == Init /\ [][Next]_vars

\* ------------------------------------------------------------ FilterSpec
\* One filter object, called on one record group after another.
NoRun ==
    /\ args = [input |-> 0, output |-> 0]
    /\ inputs = <<>>
    /\ pos = <<>>
    /\ filters = <<>>
    /\ outputs = <<>>
    /\ cur = <<>>
    /\ pc = "unit"
    /\ idx = 0
    /\ exc = NoException
    /\ hist = <<>>

\* Quality bytes of phred 1 and phred 9 at the default offset.
FilterBytes == {34, 42}

FilterOffsets == {DEFAULT_PHRED_SCORE_OFFSET, 31}

FilterGroups ==
    UNION { { [i \in 1..m |-> SequenceRecord(1, i, quals[i])] :
                quals \in [1..m -> SeqsUpTo(FilterBytes, MaxLen)] } :
            m \in 1..MaxMates }

FilterConfigs ==
    { [NewFilter(name, t) EXCEPT !.phred_offset = o] :
        name \in {"min_length", "max_length"}, t \in 0..(MaxLen + 1),
        o \in {DEFAULT_PHRED_SCORE_OFFSET} }
    \cup
    { [NewFilter("average_error_rate", t) EXCEPT !.phred_offset = o] :
        t \in {1, 4, 9}, o \in FilterOffsets }
    \cup
    { [NewFilter("median_quality", t) EXCEPT !.phred_offset = o] :
        t \in {1, 5, 9}, o \in FilterOffsets }

FilterInit ==
    /\ NoRun
    /\ \E f \in FilterConfigs : call = [fn |-> "new", filter |-> f, records |-> <<>>]
    /\ result = NoResult

\* The groups of the calls that follow the first one: a single mate.
LaterGroups == {g \in FilterGroups : Len(g) = 1}

\* One call of the filter: the first call on any group, a later call on a
\* group of one mate.
call_filter ==
    /\ call.filter.total < MaxCalls
    /\ \E g \in (IF call.fn = "new" THEN FilterGroups ELSE LaterGroups) :
          LET res == passes_filter(call.filter, g)
          IN  /\ call' = [fn |-> "filter", filter |-> counted(call.filter, res),
                          records |-> g]
              /\ result' = res
    /\ UNCHANGED run_vars

FilterNext == call_filter

FilterSpec == FilterInit /\ [][FilterNext]_vars

\* -------------------------------------------------------------- StatSpec
\* One call of qualmean or of qualmedian.
StatBytes == {34, 39, 42}

StatOffsets == {DEFAULT_PHRED_SCORE_OFFSET, 0}

StatQualities ==
    {<<b>> : b \in 0..MaxByte} \cup SeqsUpTo(StatBytes, MaxQualLen)

StatInit ==
    /\ NoRun
    /\ \E q \in StatQualities, o \in StatOffsets :
          call = [fn |-> "new", qualities |-> q, phred_offset |-> o]
    /\ result = NoResult

call_qualmean ==
    /\ call.fn = "new"
    /\ call' = [call EXCEPT !.fn = "qualmean"]
    /\ result' = qualmean(call.qualities, call.phred_offset)
    /\ UNCHANGED run_vars

call_qualmedian ==
    /\ call.fn = "new"
    /\ call' = [call EXCEPT !.fn = "qualmedian"]
    /\ result' = qualmedian(call.qualities, call.phred_offset)
    /\ UNCHANGED run_vars

StatNext == call_qualmean \/ call_qualmedian

StatSpec == StatInit /\ [][StatNext]_vars

\* ===================================================== properties of a run
\* filter_fastq has returned to main without an exception.
FilterFastqReturned ==
    \/ pc \in {"summary", "exit"}
    \/ pc = "raised" /\ exc.line \in {252, 258}

\* The records of row r, one per input.
Group(r) == [i \in 1..args.input |-> inputs[i][r]]

FullRows == 1..Min({Len(inputs[i]) : i \in 1..args.input})

EqualLength == \A i, j \in 1..args.input : Len(inputs[i]) = Len(inputs[j])

InSync == \A r \in FullRows : \A i, j \in 1..args.input : is_mate(inputs[i][r], inputs[j][r])

\* Every filter of the list returns true for the group of row r.
Survives(r) ==
    \A k \in 1..Len(filters) :
        LET res == passes_filter(filters[k], Group(r))
        IN  res.exc = "none" /\ res.value

RECURSIVE Survivors(_, _)
\* The records of input i in the rows 1..r that survive, in the order of
\* the input.
Survivors(i, r) ==
    IF r = 0 THEN <<>>
    ELSE Survivors(i, r - 1) \o (IF Survives(r) THEN <<inputs[i][r]>> ELSE <<>>)

\* The records a parser reads back from output i.
Written(i) == parse_fastq(outputs[i])

\* The rows whose group the loop is through with: pulled from every input
\* and no longer in hand.
DoneRows ==
    {r \in 1..Min({pos[i] : i \in 1..args.input}) : ~(cur # <<>> /\ r = pos[1])}

\* Row r is in every output; row r is in some output.
WrittenRow(r) ==
    \A i \in 1..args.input : i <= Len(outputs) /\ inputs[i][r] \in Range(Written(i))

PartlyWrittenRow(r) ==
    \E i \in 1..Len(outputs) : \E j \in 1..args.input : inputs[j][r] \in Range(Written(i))

\* C1: when filter_fastq has returned on inputs that are in sync and of
\* equal length, output i holds, read back, exactly the records of input i
\* in the rows whose group every filter accepts, unchanged and in the order
\* of the input, and all outputs hold the same number of records.
C1_OutputsHoldSurvivors ==
    (FilterFastqReturned /\ EqualLength /\ InSync) =>
        /\ Len(outputs) = args.input
        /\ \A i \in 1..args.input : Written(i) = Survivors(i, Len(inputs[i]))
        /\ \A i, j \in 1..Len(outputs) : Len(Written(i)) = Len(Written(j))

\* C1 witness: a finished run on two or more inputs of two rows, of which
\* one row survived and one did not.
C1_Witness ==
    /\ pc = "exit"
    /\ args.input >= 2
    /\ EqualLength /\ InSync
    /\ Len(inputs[1]) = 2
    /\ Len(Written(2)) = 1
    /\ Written(2)[1] = inputs[2][2]

\* C2: a group the loop is through with is in the outputs if and only if
\* every filter of the list returns true for it; in particular every such
\* group is written when the list is empty.
C2_WrittenIffAllFiltersPass ==
    \A r \in DoneRows :
        /\ Survives(r) => WrittenRow(r)
        /\ ~Survives(r) => ~PartlyWrittenRow(r)
        /\ filters = <<>> => WrittenRow(r)

\* C2 witness: under a list of two filters, a row that was written and a
\* row that the second filter alone refuses.
C2_Witness ==
    /\ Len(filters) = 2
    /\ \E r, q \in DoneRows :
          /\ WrittenRow(r)
          /\ ~PartlyWrittenRow(q)
          /\ passes_filter(filters[1], Group(q)).value
          /\ ~passes_filter(filters[2], Group(q)).value

\* The rows that every input has and whose records are not all mates.
OutOfSyncRows ==
    {r \in FullRows : \E i, j \in 1..args.input : ~is_mate(inputs[i][r], inputs[j][r])}

\* C3: with two or more inputs, once the records of a row that are not all
\* mates have been pulled, the check is about to run or the run has ended
\* with the out-of-sync error; no filter was called on the row, nothing of
\* it or of a later row was written, and no later record was read.
C3_OutOfSyncIsFatal ==
    \A r \in OutOfSyncRows :
        (args.input >= 2 /\ \A i \in 1..args.input : pos[i] >= r) =>
            /\ pc \in {"mates", "raised"}
            /\ pc = "raised" =>
                  /\ exc.type = "FastqFormatError"
                  /\ exc.line \in {87, 95}
            /\ \A i \in 1..args.input : pos[i] = r
            /\ \A e \in Range(hist) : e.ev \in {"filter", "write"} => e.row < r
            /\ \A q \in r..Min({Len(inputs[i]) : i \in 1..args.input}) :
                  ~PartlyWrittenRow(q)

\* C3 witness: the error raised on the second row of three inputs, for a
\* group that the filters would have refused, after the first was written.
C3_Witness ==
    /\ pc = "raised"
    /\ exc.type = "FastqFormatError"
    /\ exc.line = 95
    /\ 2 \in OutOfSyncRows
    /\ filters # <<>>
    /\ ~Survives(2)
    /\ WrittenRow(1)

\* C4, as claimed: with two or more inputs whose names are in sync and
\* whose numbers of records are not all equal, filter_fastq never returns
\* as if nothing were wrong.
C4_UnequalCountsAreFatal ==
    (args.input >= 2 /\ InSync /\ ~EqualLength) => ~FilterFastqReturned

\* C5: when the number of outputs differs from the number of inputs,
\* filter_fastq ends with its ValueError, and in that state no record has
\* been read, no filter has been called and no output has been opened.
C5_ArityErrorComesFirst ==
    (args.output # 0 /\ args.output # args.input /\ pc \notin {"main", "filter_fastq"}) =>
        /\ pc = "raised"
        /\ exc = [type |-> "ValueError", line |-> 127]
        /\ \A i \in 1..args.input : pos[i] = 0
        /\ \A k \in 1..Len(filters) : filters[k].total = 0 /\ filters[k].passed = 0
        /\ outputs = <<>>
        /\ hist = <<>>

\* C5 witness: the ValueError with more outputs than inputs, filters
\* configured and records waiting in the inputs.
C5_Witness ==
    /\ pc = "raised"
    /\ exc.type = "ValueError"
    /\ args.output > args.input
    /\ filters # <<>>
    /\ Len(inputs[1]) > 0

\* ============================================== properties of one filter call
FilterCalled(name) == call.fn = "filter" /\ call.filter.name = name

SequenceLengths == [i \in 1..Len(call.records) |-> Len(call.records[i].sequence)]

\* C6: MinimumLengthFilter returns true exactly when at least one record
\* of the group has threshold bases or more.
C6_MinimumLengthIsAny ==
    FilterCalled("min_length") =>
        /\ result.exc = "none"
        /\ result.value <=>
              Cardinality({i \in 1..Len(call.records) :
                              SequenceLengths[i] >= call.filter.threshold}) >= 1

\* C6 witness: two mates, one of exactly threshold bases and one shorter,
\* and the filter returned true.
C6_Witness ==
    /\ FilterCalled("min_length")
    /\ Len(call.records) = 2
    /\ call.filter.threshold >= 1
    /\ SequenceLengths[1] = call.filter.threshold
    /\ SequenceLengths[2] < call.filter.threshold
    /\ result.value

\* C7: MaximumLengthFilter returns true exactly when no record of the group
\* has more than threshold bases.
C7_MaximumLengthIsAll ==
    FilterCalled("max_length") =>
        /\ result.exc = "none"
        /\ result.value <=>
              Cardinality({i \in 1..Len(call.records) :
                              SequenceLengths[i] > call.filter.threshold}) = 0

\* C7 witness: two mates, one of exactly threshold bases and one shorter,
\* and the filter returned true.
C7_Witness ==
    /\ FilterCalled("max_length")
    /\ Len(call.records) = 2
    /\ SequenceLengths[1] < call.filter.threshold
    /\ SequenceLengths[2] = call.filter.threshold
    /\ result.value

\* The phred values of all mates of the group under test, in one sequence.
PooledPhreds ==
    LET q == pooled_qualities(call.records)
    IN  [i \in 1..Len(q) |-> q[i] - call.filter.phred_offset]

\* The j-th smallest value of v: the least value that j values do not exceed.
OrderStatistic(v, j) ==
    Min({x \in Range(v) : Cardinality({i \in 1..Len(v) : v[i] <= x}) >= j})

\* Twice the median of a non-empty v.
TwiceMedian(v) ==
    OrderStatistic(v, (Len(v) + 1) \div 2) + OrderStatistic(v, (Len(v) \div 2) + 1)

\* C8: MedianQualityFilter returns true exactly when the median of the
\* phred values of all mates together is threshold or more.
C8_MedianQualityIsPooled ==
    FilterCalled("median_quality") =>
        ((result.exc = "none" /\ result.value) <=>
            (PooledPhreds # <<>> /\ TwiceMedian(PooledPhreds) >= 2 * call.filter.threshold))

\* C8 witness: two mates whose pooled median equals the threshold, the
\* median of the first mate alone being below it, and the filter returned
\* true.
C8_Witness ==
    /\ FilterCalled("median_quality")
    /\ Len(call.records) = 2
    /\ call.records[1].qualities # <<>>
    /\ call.records[2].qualities # <<>>
    /\ TwiceMedian(PooledPhreds) = 2 * call.filter.threshold
    /\ \A i \in 1..Len(call.records[1].qualities) :
          call.records[1].qualities[i] - call.filter.phred_offset < call.filter.threshold
    /\ result.value

\* 10 ** -(q / 10) for q = 0..20, in millionths.
PhredProbabilities ==
    <<1000000, 794328, 630957, 501187, 398107, 316228, 251189, 199526,
      158489, 125893, 100000, 79433, 63096, 50119, 39811, 31623, 25119,
      19953, 15849, 12589, 10000>>

ErrorProbability(phred) == PhredProbabilities[phred + 1]

\* C9: AverageErrorRateFilter returns true exactly when the mean of the
\* error probabilities of all bases of all mates is at most the threshold
\* (the filter's threshold t stands for the rate 10 ** -(t / 10)).
C9_AverageErrorRateIsPooledMean ==
    FilterCalled("average_error_rate") =>
        ((result.exc = "none" /\ result.value) <=>
            /\ PooledPhreds # <<>>
            /\ SumSeq([i \in 1..Len(PooledPhreds) |-> ErrorProbability(PooledPhreds[i])])
                  <= Len(PooledPhreds) * ErrorProbability(call.filter.threshold))

\* C9 witness: two mates whose pooled error rate is the threshold itself,
\* and the filter returned true.
C9_Witness ==
    /\ FilterCalled("average_error_rate")
    /\ Len(call.records) = 2
    /\ call.records[1].qualities # <<>>
    /\ call.records[2].qualities # <<>>
    /\ \A i \in 1..Len(PooledPhreds) : PooledPhreds[i] = call.filter.threshold
    /\ result.value

\* ============================================ properties of one statistic call
\* C10, as claimed: on a quality string of one byte b, qualmean and
\* qualmedian return a value for b in 33..126, fail with the phred range
\* error for b in 0..32 and b = 127, and fail with the ASCII error for b in
\* 128..255.
C10_EveryByteIsClassified ==
    (call.fn \in {"qualmean", "qualmedian"} /\ Len(call.qualities) = 1) =>
        LET b == call.qualities[1]
        IN  /\ b \in 33..126 => result.exc = "none"
            /\ b \in (0..32) \cup {127} => result.exc = "ValueError: outside phred range"
            /\ b \in 128..MaxByte => result.exc = "ValueError: not ASCII"

\* C11, as claimed: qualmean and qualmedian called on the empty quality
\* string raise nothing and return the value NaN, whatever the offset.
C11_EmptyQualitiesGiveNaN ==
    (call.fn \in {"qualmean", "qualmedian"} /\ call.qualities = <<>>) =>
        result = [exc |-> "none", value |-> "nan"]

\* =========================================== properties of a filter's counters
\* C12: every call of a filter that returns adds exactly 1 to total, and
\* adds 1 to passed when it returns true and 0 when it returns false; the
\* counters never decrease, are never reset, and 0 <= passed <= total.
C12_CountersCountEvaluations ==
    [][(call'.fn = "filter" /\ result'.exc = "none") =>
          /\ call'.filter.total = call.filter.total + 1
          /\ call'.filter.passed =
                call.filter.passed + (IF result'.value THEN 1 ELSE 0)
          /\ call'.filter.total >= call.filter.total
          /\ call'.filter.passed >= call.filter.passed
          /\ 0 <= call'.filter.passed
          /\ call'.filter.passed <= call'.filter.total]_vars

\* C12 witness: a filter after two calls, of which exactly one returned
\* true.
C12_Witness ==
    /\ call.fn = "filter"
    /\ call.filter.total = 2
    /\ call.filter.passed = 1

\* ================================================== properties of main's exit
\* C13, as claimed: with as many outputs as inputs, once filter_fastq has
\* returned without an exception main ends normally, whatever the filters
\* and the records.
C13_MainExitsNormallyWithoutFailure ==
    (args.output = args.input /\ FilterFastqReturned) => pc # "raised"

\* C14, as claimed: main run on one input without any -o option raises
\* nothing.
C14_OutputDefaultsToStdout ==
    (args.input = 1 /\ args.output = 0) => pc # "raised"

\* ======================================= properties of the chain of filters
\* The loop is between two groups, or filter_fastq has returned.
BetweenGroups == pc \in {"zip", "exhausted"} \/ FilterFastqReturned

\* The number of groups the generator has yielded, between two groups: the
\* last input is pulled last, once per complete group.
GroupsDelivered == pos[args.input]

\* The calls of filter k so far, and those that returned true.
Evaluations(k) == {p \in 1..Len(hist) : hist[p].ev = "filter" /\ hist[p].n = k}

Passes(k) == {p \in Evaluations(k) : hist[p].ok}

\* C15: filter k + 1 is called on a group exactly when filters 1..k were
\* called on it, in the order of the list, and all returned true; the
\* counters of a filter count its calls, so a filter that is not called
\* keeps its counters.  Between two groups, filters[0].total is the number
\* of groups delivered, filters[k + 1].total is filters[k].passed, and
\* filters[-1].passed is the number of groups written: the counts of
\* main's summary.
C15_FiltersShortCircuitInOrder ==
    /\ \A p \in 1..Len(hist) :
          hist[p].ev = "filter" =>
              /\ p > 1
              /\ IF hist[p].n = 1
                 THEN hist[p - 1] = Event("pull", args.input, hist[p].row, TRUE)
                 ELSE hist[p - 1] = Event("filter", hist[p].n - 1, hist[p].row, TRUE)
              /\ (hist[p].ok /\ hist[p].n < Len(filters)) =>
                    IF p < Len(hist)
                    THEN /\ hist[p + 1].ev = "filter"
                         /\ hist[p + 1].n = hist[p].n + 1
                         /\ hist[p + 1].row = hist[p].row
                    ELSE pc = "filter" /\ idx = hist[p].n + 1
              /\ (~hist[p].ok /\ p < Len(hist)) => hist[p + 1].ev = "pull"
    /\ \A k \in 1..Len(filters) :
          /\ filters[k].total = Cardinality(Evaluations(k))
          /\ filters[k].passed = Cardinality(Passes(k))
    /\ (BetweenGroups /\ filters # <<>>) =>
          /\ filters[1].total = GroupsDelivered
          /\ \A k \in 1..(Len(filters) - 1) : filters[k + 1].total = filters[k].passed
          /\ \A i \in 1..Len(outputs) :
                filters[Len(filters)].passed = Len(Written(i))

\* C15 witness: a finished run under two filters, the first of which
\* refused a group and let another through to the second, which was
\* written.
C15_Witness ==
    /\ pc = "exit"
    /\ Len(filters) = 2
    /\ filters[1].total = 2
    /\ filters[1].passed = 1
    /\ filters[2].total = 1
    /\ filters[2].passed = 1
    /\ Len(Written(1)) = 1

\* ============================================ properties of the order of steps
\* C16: the loop is through with one group before it pulls the next: the
\* records of a group are pulled in the order of the inputs; the filters
\* are called and the records written, one per output in the order of the
\* outputs, before the first record of the next group is pulled; and the
\* records in hand are never more than one per input, each the last one
\* read from its input.
C16_OneGroupAtATime ==
    /\ hist # <<>> => hist[1] = Event("pull", 1, 1, hist[1].ok)
    /\ \A p \in 2..Len(hist) :
          LET a == hist[p - 1]
              b == hist[p]
          IN  /\ b.row >= a.row
              /\ ~(a.ev = "pull" /\ ~a.ok)
              /\ (b.ev = "pull" /\ b.n > 1) => a = Event("pull", b.n - 1, b.row, TRUE)
              /\ (b.ev = "pull" /\ b.n = 1) =>
                    /\ a.row = b.row - 1
                    /\ \/ a = Event("write", Len(outputs), a.row, TRUE)
                       \/ a.ev = "filter" /\ ~a.ok
              /\ (b.ev = "write" /\ b.n > 1) => a = Event("write", b.n - 1, b.row, TRUE)
              /\ (b.ev = "write" /\ b.n = 1) =>
                    IF filters = <<>>
                    THEN a = Event("pull", args.input, b.row, TRUE)
                    ELSE a = Event("filter", Len(filters), b.row, TRUE)
    /\ Len(cur) <= args.input
    /\ \A i \in 1..Len(cur) : pos[i] >= 1 /\ cur[i] = inputs[i][pos[i]]

\* C16 witness: a finished run under a filter list that wrote two groups
\* of two or more records.
C16_Witness ==
    /\ pc = "exit"
    /\ args.input >= 2
    /\ filters # <<>>
    /\ Len(Written(args.input)) = 2
    /\ hist[Len(hist)].ev = "pull"
    /\ ~hist[Len(hist)].ok

\* ============================================= properties of a run that fails
\* The run has ended with the out-of-sync or the unequal-length error.
StoppedOnFormatError == pc = "raised" /\ exc.type = "FastqFormatError"

\* The number of groups that precede the error: every complete row for the
\* unequal-length error, the rows before the first one that is out of sync
\* otherwise.
GroupsBeforeError ==
    IF exc.line = 105 \/ OutOfSyncRows = {}
    THEN Cardinality(FullRows)
    ELSE Min(OutOfSyncRows) - 1

\* C17: when the run ends with the out-of-sync or the unequal-length
\* error, every output holds exactly the surviving records of the groups
\* before the error, in order, all outputs hold equally many records, and
\* nothing written is taken back; the unequal-length error comes only when
\* every complete row has been pulled, gone through the filters and, if it
\* survived, been written.
C17_OutputsKeptUpToTheError ==
    StoppedOnFormatError =>
        /\ exc.line = 105 => (OutOfSyncRows = {} /\ ~EqualLength)
        /\ exc.line # 105 => OutOfSyncRows # {}
        /\ Len(outputs) = args.input
        /\ \A i \in 1..args.input : Written(i) = Survivors(i, GroupsBeforeError)
        /\ \A i, j \in 1..Len(outputs) : Len(Written(i)) = Len(Written(j))
        /\ exc.line = 105 =>
              /\ \A i \in 1..args.input : pos[i] >= GroupsBeforeError
              /\ filters # <<>> => filters[1].total = GroupsBeforeError
              /\ \A r \in FullRows :
                    /\ Event("pull", args.input, r, TRUE) \in Range(hist)
                    /\ Survives(r) =>
                          Event("write", args.input, r, TRUE) \in Range(hist)

\* C17 witness: the unequal-length error on three inputs under a filter
\* list, after the one complete row went through the filters and was
\* written to every output.
C17_Witness ==
    /\ StoppedOnFormatError
    /\ exc.line = 105
    /\ args.input = 3
    /\ filters # <<>>
    /\ Cardinality(FullRows) = 1
    /\ \A i \in 1..args.input : Len(Written(i)) = 1

\* ================================================== properties of qualmedian
\* The quality string of the call decoded: byte - offset.
DecodedQualities ==
    [i \in 1..Len(call.qualities) |-> call.qualities[i] - call.phred_offset]

\* C18: on a non-empty string of bytes 33..126, qualmedian is the median
\* of the decoded values byte - offset: the middle one of the sorted values
\* for an odd length, the mean of the two middle ones for an even length;
\* it is also the median of the bytes less the offset.
C18_MedianOfDecodedValues ==
    (/\ call.fn = "qualmedian"
     /\ call.qualities # <<>>
     /\ \A i \in 1..Len(call.qualities) : call.qualities[i] \in 33..126) =>
        /\ result.exc = "none"
        /\ result.twice = TwiceMedian(DecodedQualities)
        /\ result.twice = TwiceMedian(call.qualities) - 2 * call.phred_offset

\* C18 witness: qualmedian of three bytes that are not in order, and whose
\* median is neither the first nor the middle one as given.
C18_Witness ==
    /\ call.fn = "qualmedian"
    /\ Len(call.qualities) = 3
    /\ call.qualities[1] > call.qualities[3]
    /\ call.qualities[3] > call.qualities[2]
    /\ result.twice = 2 * call.qualities[3] - 2 * call.phred_offset

====
